---- MODULE Spec2Model ----
(***************************************************************************)
(* The request-dispatch and backend-health subsystem of the load balancer  *)
(* (balancer/jwt.go): ServeHTTP, getBackendForRequest, HealthCheck and     *)
(* GetStats over one shared pool of backends.                              *)
(*                                                                         *)
(* Every action is one shared-memory access of the code (an atomic add, a  *)
(* read or write of a backend's fields inside its critical section)        *)
(* together with the goroutine-local computation that follows it.          *)
(***************************************************************************)
EXTENDS Integers, Sequences, FiniteSets, TLC

\* ----------------------------------------------------------------- bounds
\* Pool sizes of the concurrent specifications (Spec, SpecStats).
MaxBackends == 2
\* Requests in flight at once beside the health check (Spec, SpecStats).
MaxRequests == 1
\* Requests in flight at once on a pool of fixed liveness (SpecConc).
MaxHandlers == 2
\* Consecutive failed probes of one backend.
MaxFail == 2
\* Pool sizes of the sequential specification (SpecRR).
MaxPool == 4
\* The cursor and the served counters: no request is taken once one of them
\* is this far from its first value.
MaxCursor == 8
\* The pool states kept of one call of GetStats: the call is not overtaken
\* by a change of the pool that would make them more.
MaxInstants == 3

\* -------------------------------------------------------------- constants
StatusOK == 200
StatusMovedPermanently == 301
StatusUnauthorized == 401
StatusBadGateway == 502
\* The status of "no backend", were the gateway error's code written for it.
StatusServiceUnavailableAs502 == StatusBadGateway
StatusServiceUnavailable == 503
\* No status written yet / no backend (the nil *Backend).
NoStatus == 0
Nil == -1

\* What a forward gets from the backend: no response (the transport fails),
\* or a response with the status the backend chose, any: 200, the 301 of the
\* backend's ServeMux for a path it cleans, or one of the codes the load
\* balancer writes itself.
NoResponse == NoStatus
BackendAnswers ==
    {StatusOK, StatusMovedPermanently, StatusUnauthorized, StatusBadGateway,
     StatusServiceUnavailable}
ForwardResults == BackendAnswers \cup {NoResponse}

\* uint64 arithmetic is modulo 2^64.  TLC's integers are 32 bits wide: the
\* counters of the model are 30 bits wide, and the guard of ServeHTTP keeps
\* them within MaxCursor of either end of their range.
Uint64Modulus == 2^30

\* The slots of the requests in flight.
Reqs == 1..MaxHandlers

\* The flows that take a backend's mutex for reading: the requests, and the
\* call of GetStats.
StatsFlow == 0
Flows == Reqs \cup {StatsFlow}

\* --------------------------------------------------------- role extraction
\* The three roles ValidateJWT accepts.
Roles == {"Admin", "User", "Client"}

\* The Authorization header of a request: the empty string, or a token
\* (with or without the "Bearer " prefix) that parses and verifies or not
\* and carries a role claim.
Headers ==
    {[empty |-> TRUE, bearer |-> FALSE, valid |-> FALSE, role |-> ""]}
    \cup [empty : {FALSE}, bearer : BOOLEAN, valid : BOOLEAN,
          role : Roles \cup {"Guest"}]

\* ValidateJWT's result: <<role, err>>, err = "" for a nil error.
ValidateJWT(h) ==
    IF h.empty THEN <<"", "no token provided">>
    ELSE IF ~h.valid THEN <<"", "invalid token">>
    ELSE IF h.role \notin Roles THEN <<"", "invalid role claim">>
    ELSE <<h.role, "">>

VARIABLES
    n,                \* len(lb.backends)
    IsAlive,          \* Backend.IsAlive, per backend index
    failCount,        \* Backend.failCount
    RequestCount,     \* Backend.RequestCount
    roundRobinCount,  \* LoadBalancer.roundRobinCount
    pc,               \* where each request's ServeHTTP call stands
    role,             \* ServeHTTP's role
    err,              \* ServeHTTP's err ("" for nil)
    nextIndex,        \* getBackendForRequest's nextIndex
    scanI,            \* getBackendForRequest's loop variable i
    backend,          \* ServeHTTP's backend (an index, or Nil)
    status,           \* the status code written to the client
    proxied,          \* history: the requests whose response is a backend's, relayed
    hcIdx,            \* HealthCheck's position in its loop over the backends
    statsPc,          \* where the GetStats call stands
    statsI,           \* GetStats' loop variable i
    snap,             \* GetStats' backends slice, as filled so far
    snapTotal,        \* GetStats' stats["totalRequests"]
    probeFails,       \* history: failed probes of a backend since its last success
    sawAllDown,       \* history: all backends were down at an instant of the scan
    hist,             \* history: pool states since GetStats was called that agree
                      \* with what it has read so far
    recording,        \* history: whether hist is kept (a specification's choice)
    sel,              \* history: round-robin selections per backend in the window
    win,              \* history: cursor values handed out in the window
    handed,           \* history: the cursor values atomic.AddUint64 has returned, in order
    hcPc,             \* where HealthCheck stands with the probed backend's mutex
    hcOk,             \* whether HealthCheck's probe in progress succeeded
    lk,               \* where each request, and GetStats, stands with the mutex it
                      \* has last called
    lbReaders         \* the flows that hold lb.mutex for reading

poolVars == <<n, IsAlive, failCount, RequestCount, roundRobinCount>>
reqVars == <<pc, role, err, nextIndex, scanI, backend, status>>
statsVars == <<statsPc, statsI, snap, snapTotal>>
histVars == <<probeFails, sawAllDown, hist, sel, win, handed>>
lockVars == <<hcPc, hcOk, lk, lbReaders>>
vars == <<poolVars, reqVars, proxied, hcIdx, statsVars, histVars, recording, lockVars>>

Idx == 0..(n - 1)

AllDown(alive) == \A b \in DOMAIN alive : ~alive[b]

\* The pool as GetStats reports it.
PoolState(alive, fail, served, total) ==
    [alive |-> alive, fail |-> fail, served |-> served, total |-> total]

\* ------------------------------------------------------------------- Init
\* NewLoadBalancer: isAdmin := i == 0, the Backend's IsAdmin for its lifetime.
IsAdmin(i) == i = 0

\* NewLoadBalancer: every backend alive, all counters zero.
NewLoadBalancer(len) ==
    /\ n = len
    /\ IsAlive = [b \in 0..(len - 1) |-> TRUE]
    /\ failCount = [b \in 0..(len - 1) |-> 0]
    /\ RequestCount = [b \in 0..(len - 1) |-> 0]
    /\ roundRobinCount = 0

NoRequests ==
    /\ pc = [r \in Reqs |-> "new"]
    /\ role = [r \in Reqs |-> ""]
    /\ err = [r \in Reqs |-> ""]
    /\ nextIndex = [r \in Reqs |-> 0]
    /\ scanI = [r \in Reqs |-> 0]
    /\ backend = [r \in Reqs |-> Nil]
    /\ status = [r \in Reqs |-> NoStatus]
    /\ proxied = {}
    /\ hcIdx = 0
    /\ statsPc = "idle"
    /\ statsI = 0
    /\ snap = << >>
    /\ snapTotal = 0
    /\ sawAllDown = [r \in Reqs |-> FALSE]
    /\ hist = {}
    /\ win = 0
    /\ handed = << >>
    /\ hcPc = "probe"
    /\ hcOk = FALSE
    /\ lk = [f \in Flows |-> "none"]
    /\ lbReaders = {}

Init ==
    /\ \E len \in 1..MaxBackends : NewLoadBalancer(len)
    /\ NoRequests
    /\ probeFails = [b \in Idx |-> 0]
    /\ sel = [b \in Idx |-> 0]
    /\ recording = TRUE

\* ------------------------------------------------------------ history
\* Whether pool state x agrees with everything GetStats has read so far.
Agrees(x, sn, totalRead, total) ==
    /\ \A j \in 1..Len(sn) :
         /\ x.alive[j - 1] = sn[j].isAlive
         /\ x.fail[j - 1] = sn[j].failCount
         /\ x.served[j - 1] = sn[j].requestCount
    /\ totalRead => x.total = total

\* The pool has just changed: remember the new pool state for the GetStats
\* call in progress, if it can still be the one the call reports.
Observe ==
    /\ hist' = IF recording /\ statsPc \in {"read", "total", "ret"}
               THEN {x \in hist \cup {PoolState(IsAlive', failCount', RequestCount',
                                                roundRobinCount')} :
                        Agrees(x, snap, statsPc = "ret", snapTotal)}
               ELSE hist
    /\ Cardinality(hist') <= MaxInstants

\* -------------------------------------------------------------- ServeHTTP
\* ServeHTTP, were it to advance the cursor before it validates the token.
ServeHTTPCounting(r, h) ==
    /\ pc[r] = "new"
    /\ roundRobinCount < MaxCursor \/ roundRobinCount >= Uint64Modulus - MaxCursor
    /\ \A b \in Idx : RequestCount[b] < MaxCursor
    /\ role' = [role EXCEPT ![r] = ValidateJWT(h)[1]]
    /\ err' = [err EXCEPT ![r] = ValidateJWT(h)[2]]
    /\ IF ValidateJWT(h)[2] # ""
       THEN /\ status' = [status EXCEPT ![r] = StatusUnauthorized]
            /\ pc' = [pc EXCEPT ![r] = "done"]
            /\ roundRobinCount' = (roundRobinCount + 1) % Uint64Modulus
       ELSE /\ pc' = [pc EXCEPT ![r] = "route"]
            /\ UNCHANGED <<status, roundRobinCount>>
    /\ UNCHANGED <<n, IsAlive, failCount, RequestCount>>
    /\ UNCHANGED <<nextIndex, scanI, backend, hcIdx, statsVars, histVars>>
    /\ UNCHANGED lockVars
    /\ UNCHANGED recording
    /\ UNCHANGED proxied

\* ServeHTTP up to the call of getBackendForRequest: role extraction, and
\* the 401 answer when it fails.
ServeHTTP(r, h) ==
    /\ pc[r] = "new"
    /\ roundRobinCount < MaxCursor \/ roundRobinCount >= Uint64Modulus - MaxCursor
    /\ \A b \in Idx : RequestCount[b] < MaxCursor
    /\ role' = [role EXCEPT ![r] = ValidateJWT(h)[1]]
    /\ err' = [err EXCEPT ![r] = ValidateJWT(h)[2]]
    /\ IF ValidateJWT(h)[2] # ""
       THEN /\ status' = [status EXCEPT ![r] = StatusUnauthorized]
            /\ pc' = [pc EXCEPT ![r] = "done"]
       ELSE /\ pc' = [pc EXCEPT ![r] = "route"]
            /\ UNCHANGED status
    /\ UNCHANGED <<poolVars, nextIndex, scanI, backend, hcIdx, statsVars, histVars>>
    /\ UNCHANGED lockVars
    /\ UNCHANGED recording
    /\ UNCHANGED proxied

\* AdminBackend, were an Admin request to fall back to another backend.
AdminBackendFallback(alive) ==
    IF alive[0] THEN 0
    ELSE IF \E b \in DOMAIN alive : alive[b]
         THEN CHOOSE b \in DOMAIN alive : alive[b]
         ELSE Nil

\* AdminBackend, were the liveness of backend 0 not read.
AdminBackendUnchecked(alive) == 0

\* The backend an Admin request gets, given the liveness it reads.
AdminBackend(alive) == IF alive[0] THEN 0 ELSE Nil

\* getBackendForRequest, role == "Admin": one read of backends[0].IsAlive,
\* made after lb.mutex.RUnlock() with no mutex held; a nil result is answered
\* 503 by ServeHTTP.  The function returns: the request stands at no mutex.
RouteAdmin(r) ==
    /\ pc[r] = "route"
    /\ role[r] = "Admin"
    /\ backend' = [backend EXCEPT ![r] = AdminBackend(IsAlive)]
    /\ IF AdminBackend(IsAlive) = Nil
       THEN /\ status' = [status EXCEPT ![r] = StatusServiceUnavailable]
            /\ pc' = [pc EXCEPT ![r] = "done"]
       ELSE /\ pc' = [pc EXCEPT ![r] = "count"]
            /\ UNCHANGED status
    /\ UNCHANGED <<poolVars, role, err, nextIndex, scanI, hcIdx, statsVars, histVars>>
    /\ lk' = [lk EXCEPT ![r] = "none"]
    /\ UNCHANGED <<hcPc, hcOk, lbReaders>>
    /\ UNCHANGED recording
    /\ UNCHANGED proxied

\* AddUint64, were the update lost.
AddUint64Lost(x, delta) == x

\* AddUint64, were the counter to stay at its last value rather than wrap.
AddUint64Saturating(x, delta) ==
    IF x + delta >= Uint64Modulus THEN Uint64Modulus - 1 ELSE x + delta

\* atomic.AddUint64(addr, delta): the new value, modulo the width of a uint64.
AddUint64(x, delta) == (x + delta) % Uint64Modulus

\* nextIndex, from the incremented counter.
NextIndexOf(count, len) == count % len

\* NextIndex, were the increment a load and a store with the increments of
\* other requests in between: the value stored is one more than a value the
\* cursor had earlier.
NextIndexTorn(r) ==
    /\ pc[r] = "route"
    /\ role[r] # "Admin"
    /\ \E c \in {0} \cup {handed[i] : i \in 1..Len(handed)} :
         roundRobinCount' = AddUint64(c, 1)
    /\ nextIndex' = [nextIndex EXCEPT ![r] = NextIndexOf(roundRobinCount', n)]
    /\ scanI' = [scanI EXCEPT ![r] = 0]
    /\ pc' = [pc EXCEPT ![r] = "scan"]
    /\ sawAllDown' = [sawAllDown EXCEPT ![r] = AllDown(IsAlive)]
    /\ win' = win + 1
    /\ handed' = Append(handed, roundRobinCount')
    /\ UNCHANGED <<n, IsAlive, failCount, RequestCount>>
    /\ Observe
    /\ UNCHANGED <<role, err, backend, status, hcIdx, statsVars, probeFails, sel>>
    /\ UNCHANGED lockVars
    /\ UNCHANGED recording
    /\ UNCHANGED proxied

\* getBackendForRequest, other roles: the atomic increment of the cursor.
NextIndex(r) ==
    /\ pc[r] = "route"
    /\ role[r] # "Admin"
    /\ roundRobinCount' = AddUint64(roundRobinCount, 1)
    /\ nextIndex' = [nextIndex EXCEPT ![r] = NextIndexOf(roundRobinCount', n)]
    /\ scanI' = [scanI EXCEPT ![r] = 0]
    /\ pc' = [pc EXCEPT ![r] = "scan"]
    /\ sawAllDown' = [sawAllDown EXCEPT ![r] = AllDown(IsAlive)]
    /\ win' = win + 1
    /\ handed' = Append(handed, roundRobinCount')
    /\ UNCHANGED <<n, IsAlive, failCount, RequestCount>>
    /\ Observe
    /\ UNCHANGED <<role, err, backend, status, hcIdx, statsVars, probeFails, sel>>
    /\ UNCHANGED lockVars
    /\ UNCHANGED recording
    /\ UNCHANGED proxied

\* ScanIdx, were the loop to walk the pool backwards.
ScanIdxBackwards(next, i, len) == (next - i + len) % len

\* idx of the loop's iteration i.
ScanIdx(next, i, len) == (next + i) % len

\* ScanMore, were the loop to stop one backend short.
ScanMoreShort(i, len) == i + 1 < len - 1

\* Whether the loop runs another iteration after iteration i found its
\* backend down.
ScanMore(i, len) == i + 1 < len

\* ------------------------------------------------------------------ locks
\* Backend.mutex, a sync.RWMutex.  HealthCheck alone takes it for writing,
\* and of one backend at a time, the one at hcIdx: hcPc is "lock" from its
\* call of Lock until the readers before it have left, "locked" while it
\* holds the mutex, "wrote" once it has assigned IsAlive and not yet
\* failCount, "probe" otherwise.  A reader is at "wait" from a call of
\* RLock that finds a writer until that writer's Unlock, and at "held"
\* until its RUnlock.  LoadBalancer.mutex is only ever taken for reading, by
\* getBackendForRequest around its copy of lb.backends and by GetStats around
\* its loop: RLock never waits, lbReaders are its holders, and a request that
\* has left it and not yet called the next mutex, or made the Admin branch's
\* read, is at "released".  An action of Spec that reads or writes under a
\* mutex is the whole critical section: the mutex is free before and after.
\* SpecLocks takes the calls of Lock, RLock and lb.mutex.RUnlock, and
\* HealthCheck's two assignments, as steps of their own.

\* The backend whose mutex flow f is at.
MutexOf(f) ==
    IF f = StatsFlow THEN statsI ELSE ScanIdx(nextIndex[f], scanI[f], n)

\* HealthCheck has called Lock on the mutex of backend b.
WriterAt(b) == hcPc \in {"lock", "locked", "wrote"} /\ hcIdx = b

\* The flows that hold the mutex of backend b for reading.
ReadersOf(b) == {f \in Flows : lk[f] = "held" /\ MutexOf(f) = b}

\* RLock: granted unless a writer holds the mutex or waits for it.
RLock(f, b) == lk' = [lk EXCEPT ![f] = IF WriterAt(b) THEN "wait" ELSE "held"]

RUnlock(f) == lk' = [lk EXCEPT ![f] = "none"]

\* Unlock, were it to leave the readers it has blocked waiting.
UnlockNoWake(b) == lk' = lk

\* Unlock: the readers blocked behind the writer are let in.
Unlock(b) ==
    lk' = [f \in Flows |->
             IF lk[f] = "wait" /\ MutexOf(f) = b THEN "held" ELSE lk[f]]

\* getBackendForRequest, other roles: one iteration of the loop, one read of
\* a backend's IsAlive under its lock.  The function's locals end with it.
Scan(r) ==
    /\ pc[r] = "scan"
    /\ LET idx == ScanIdx(nextIndex[r], scanI[r], n) IN
       IF IsAlive[idx]
       THEN /\ backend' = [backend EXCEPT ![r] = idx]
            /\ pc' = [pc EXCEPT ![r] = "count"]
            /\ sel' = [sel EXCEPT ![idx] = @ + 1]
            /\ nextIndex' = [nextIndex EXCEPT ![r] = 0]
            /\ scanI' = [scanI EXCEPT ![r] = 0]
            /\ UNCHANGED status
       ELSE IF ScanMore(scanI[r], n)
       THEN /\ scanI' = [scanI EXCEPT ![r] = @ + 1]
            /\ UNCHANGED <<backend, pc, status, sel, nextIndex>>
       ELSE /\ status' = [status EXCEPT ![r] = StatusServiceUnavailable]
            /\ pc' = [pc EXCEPT ![r] = "done"]
            /\ nextIndex' = [nextIndex EXCEPT ![r] = 0]
            /\ scanI' = [scanI EXCEPT ![r] = 0]
            /\ UNCHANGED <<backend, sel>>
    /\ UNCHANGED <<poolVars, role, err, hcIdx, statsVars,
                   probeFails, sawAllDown, hist, win, handed>>
    /\ RUnlock(r)
    /\ UNCHANGED <<hcPc, hcOk, lbReaders>>
    /\ UNCHANGED recording
    /\ UNCHANGED proxied

\* ServeHTTP: atomic.AddUint64(&backend.RequestCount, 1).
Count(r) ==
    /\ pc[r] = "count"
    /\ RequestCount' = [RequestCount EXCEPT ![backend[r]] = AddUint64(@, 1)]
    /\ pc' = [pc EXCEPT ![r] = "forward"]
    /\ UNCHANGED <<n, IsAlive, failCount, roundRobinCount>>
    /\ Observe
    /\ UNCHANGED <<role, err, nextIndex, scanI, backend, status, hcIdx, statsVars,
                   probeFails, sawAllDown, sel, win, handed>>
    /\ UNCHANGED lockVars
    /\ UNCHANGED recording
    /\ UNCHANGED proxied

\* Forward, were the dispatcher to mark down the backend a forward failed on.
ForwardMarkingDown(r, ans) ==
    /\ pc[r] = "forward"
    /\ status' = [status EXCEPT ![r] =
                     IF ans = NoResponse THEN StatusBadGateway ELSE ans]
    /\ proxied' = IF ans = NoResponse THEN proxied ELSE proxied \cup {r}
    /\ pc' = [pc EXCEPT ![r] = "done"]
    /\ IsAlive' = IF ans = NoResponse THEN [IsAlive EXCEPT ![backend[r]] = FALSE]
                                      ELSE IsAlive
    /\ UNCHANGED <<n, failCount, RequestCount, roundRobinCount, role, err, nextIndex,
                   scanI, backend, hcIdx, statsVars, histVars>>
    /\ UNCHANGED lockVars
    /\ UNCHANGED recording

\* Forward, were a failed forward to send the request back to the selection.
ForwardRetrying(r, ans) ==
    /\ pc[r] = "forward"
    /\ IF ans # NoResponse
       THEN /\ status' = [status EXCEPT ![r] = ans]
            /\ proxied' = proxied \cup {r}
            /\ pc' = [pc EXCEPT ![r] = "done"]
       ELSE /\ pc' = [pc EXCEPT ![r] = "route"]
            /\ UNCHANGED <<status, proxied>>
    /\ UNCHANGED <<poolVars, role, err, nextIndex, scanI, backend, hcIdx,
                   statsVars, histVars>>
    /\ UNCHANGED lockVars
    /\ UNCHANGED recording

\* backend.Proxy.ServeHTTP: the backend's response is relayed as it is, with
\* the status the backend wrote (no ModifyResponse is set), or the transport
\* fails and proxy.ErrorHandler answers 502.
Forward(r, ans) ==
    /\ pc[r] = "forward"
    /\ status' = [status EXCEPT ![r] =
                     IF ans = NoResponse THEN StatusBadGateway ELSE ans]
    /\ proxied' = IF ans = NoResponse THEN proxied ELSE proxied \cup {r}
    /\ pc' = [pc EXCEPT ![r] = "done"]
    /\ UNCHANGED <<poolVars, role, err, nextIndex, scanI, backend, hcIdx,
                   statsVars, histVars>>
    /\ UNCHANGED lockVars
    /\ UNCHANGED recording

\* ------------------------------------------------------------ HealthCheck
\* FailCountUp, were a successful probe not to reset the counter.
FailCountUpKept(fc) == fc

\* FailCountDown, were a failed probe to set the counter rather than step it.
FailCountDownOnce(fc) == 1

\* failCount after a failed probe, and after a successful one.
FailCountDown(fc) == fc + 1
FailCountUp(fc) == 0

\* IsAliveAfter, were a backend once marked down never marked alive again.
IsAliveAfterEvicted(was, ok) == was /\ ok

\* IsAlive after a probe: false when it failed, true when it succeeded.
IsAliveAfter(was, ok) == ok

\* One iteration of HealthCheck's inner loop: the probe of backend hcIdx and
\* the update of its fields under its lock.  After the last backend the
\* loop waits for the next tick and starts over.
HealthCheck(ok) ==
    /\ ~ok => failCount[hcIdx] < MaxFail
    /\ IsAlive' = [IsAlive EXCEPT ![hcIdx] = IsAliveAfter(@, ok)]
    /\ failCount' = [failCount EXCEPT ![hcIdx] =
                        IF ok THEN FailCountUp(@) ELSE FailCountDown(@)]
    /\ hcIdx' = (hcIdx + 1) % n
    /\ probeFails' = [probeFails EXCEPT ![hcIdx] = IF ok THEN 0 ELSE @ + 1]
    /\ sawAllDown' = [r \in Reqs |->
                        sawAllDown[r] \/ (pc[r] = "scan" /\ AllDown(IsAlive'))]
    /\ UNCHANGED <<n, RequestCount, roundRobinCount>>
    /\ Observe
    /\ UNCHANGED <<reqVars, statsVars, sel, win, handed>>
    /\ Unlock(hcIdx)
    /\ hcPc' = "probe"
    /\ hcOk' = FALSE
    /\ UNCHANGED lbReaders
    /\ UNCHANGED recording
    /\ UNCHANGED proxied

\* --------------------------------------------------------------- GetStats
\* The call of GetStats: the pool's state at the call is the first of the
\* states a snapshot can be of.  The first read comes later: the requests
\* and the health check run in between.
StatsCall ==
    /\ statsPc = "idle"
    /\ statsPc' = "read"
    /\ hist' = IF recording
               THEN {PoolState(IsAlive, failCount, RequestCount, roundRobinCount)}
               ELSE hist
    /\ UNCHANGED <<poolVars, reqVars, hcIdx, statsI, snap, snapTotal, probeFails,
                   sawAllDown, sel, win, handed>>
    /\ UNCHANGED lockVars
    /\ UNCHANGED recording
    /\ UNCHANGED proxied

\* One iteration of GetStats' loop: backend i's fields, read under its lock.
StatsRead ==
    /\ statsPc = "read"
    /\ snap' = Append(snap, [isAdmin |-> IsAdmin(statsI),
                             isAlive |-> IsAlive[statsI],
                             failCount |-> failCount[statsI],
                             requestCount |-> RequestCount[statsI]])
    /\ statsI' = statsI + 1
    /\ statsPc' = IF statsI + 1 < n THEN "read" ELSE "total"
    /\ hist' = IF recording THEN {x \in hist : Agrees(x, snap', FALSE, snapTotal)}
                            ELSE hist
    /\ UNCHANGED <<poolVars, reqVars, hcIdx, snapTotal, probeFails, sawAllDown,
                   sel, win, handed>>
    /\ RUnlock(StatsFlow)
    /\ lbReaders' = IF statsI + 1 < n THEN lbReaders \cup {StatsFlow}
                                     ELSE lbReaders \ {StatsFlow}
    /\ UNCHANGED <<hcPc, hcOk>>
    /\ UNCHANGED recording
    /\ UNCHANGED proxied

\* stats["totalRequests"] = lb.roundRobinCount.
StatsTotal ==
    /\ statsPc = "total"
    /\ snapTotal' = roundRobinCount
    /\ statsPc' = "ret"
    /\ hist' = IF recording THEN {x \in hist : Agrees(x, snap, TRUE, snapTotal')}
                            ELSE hist
    /\ UNCHANGED <<poolVars, reqVars, hcIdx, statsI, snap, probeFails, sawAllDown,
                   sel, win, handed>>
    /\ UNCHANGED lockVars
    /\ UNCHANGED recording
    /\ UNCHANGED proxied

\* GetStats returns.
StatsReturn ==
    /\ statsPc = "ret"
    /\ statsPc' = "done"
    /\ UNCHANGED <<poolVars, reqVars, hcIdx, statsI, snap, snapTotal, histVars>>
    /\ UNCHANGED lockVars
    /\ UNCHANGED recording
    /\ UNCHANGED proxied

\* ------------------------------------------------------------------- Next
\* Requests are told apart only by their number: request r + 1 arrives
\* after request r.
Arrived(r) == \A q \in Reqs : q < r => pc[q] # "new"

\* One step of the goroutine that serves request r.
Handler(r) ==
    \/ \E h \in Headers : Arrived(r) /\ ServeHTTP(r, h)
    \/ RouteAdmin(r)
    \/ NextIndex(r)
    \/ Scan(r)
    \/ Count(r)
    \/ \E ans \in ForwardResults : Forward(r, ans)

Request == \E r \in 1..MaxRequests : Handler(r)

Monitor == \E ok \in BOOLEAN : HealthCheck(ok)

Next == Request \/ Monitor

Spec == Init /\ [][Next]_vars

\* ----------------------------------------------------------------- SpecLive
\* The health check beside one request, with the ticker of HealthCheck
\* firing for as long as the process runs: the goroutine of HealthCheck is
\* never starved.  The probe that finds the only backend of a pool alive and
\* leaves it alive changes nothing: it is the one probe fairness cannot ask
\* for.
Ticking == Monitor /\ (n = 1 => ~IsAlive[0])

NextLive == Handler(1) \/ Monitor

SpecLive == Init /\ [][NextLive]_vars /\ WF_vars(Ticking)

\* ---------------------------------------------------------------- SpecStats
\* Spec with one call of GetStats running beside the requests and the
\* health check.
Stats == StatsCall \/ StatsRead \/ StatsTotal \/ StatsReturn

NextStats == Request \/ Monitor \/ Stats

SpecStats == Init /\ [][NextStats]_vars

\* ------------------------------------------------------------------ SpecRR
\* Requests served one after the other on a pool whose liveness the health
\* check has set and does not change: the pool after its first tick, with
\* any outcome of the probes.
InitRR ==
    /\ \E len \in 1..MaxPool :
         /\ n = len
         /\ IsAlive \in [0..(len - 1) -> BOOLEAN]
         /\ RequestCount = [b \in 0..(len - 1) |-> 0]
    /\ failCount = [b \in Idx |-> IF IsAlive[b] THEN 0 ELSE 1]
    /\ probeFails = failCount
    /\ roundRobinCount = 0
    /\ NoRequests
    /\ sel = [b \in Idx |-> 0]
    /\ recording = TRUE

\* The server takes the next request once the one before is answered.
NextRequest(r) ==
    /\ pc[r] = "done"
    /\ pc' = [pc EXCEPT ![r] = "new"]
    /\ role' = [role EXCEPT ![r] = ""]
    /\ err' = [err EXCEPT ![r] = ""]
    /\ backend' = [backend EXCEPT ![r] = Nil]
    /\ status' = [status EXCEPT ![r] = NoStatus]
    /\ UNCHANGED <<poolVars, nextIndex, scanI, hcIdx, statsVars, histVars>>
    /\ UNCHANGED lockVars
    /\ UNCHANGED recording
    /\ proxied' = proxied \ {r}

\* A new window of observation starts between two requests.
WindowStart ==
    /\ \A r \in Reqs : pc[r] = "new"
    /\ win > 0
    /\ sel' = [b \in Idx |-> 0]
    /\ win' = 0
    /\ UNCHANGED <<poolVars, reqVars, hcIdx, statsVars, probeFails, sawAllDown, hist,
                   handed>>
    /\ UNCHANGED lockVars
    /\ UNCHANGED recording
    /\ UNCHANGED proxied

\* The one request being served.
Serving(r) == \A q \in Reqs : r <= q

RequestRR ==
    \E r \in Reqs :
        \/ \E h \in Headers : Serving(r) /\ ServeHTTP(r, h)
        \/ Serving(r) /\ RouteAdmin(r)
        \/ Serving(r) /\ NextIndex(r)
        \/ Serving(r) /\ Scan(r)
        \/ Serving(r) /\ Count(r)
        \/ \E ans \in ForwardResults : Serving(r) /\ Forward(r, ans)
        \/ Serving(r) /\ NextRequest(r)

NextRR == RequestRR \/ WindowStart

SpecRR == InitRR /\ [][NextRR]_vars

\* --------------------------------------------------------------- SpecLocks
\* SpecStats with the calls of Lock and RLock, and a request's RUnlock of
\* lb.mutex, as steps of their own: a request holds lb.mutex for reading
\* while the health check, GetStats and the other requests step.  Every
\* goroutine is scheduled again and again, and no history of the pool states
\* during the call of GetStats is kept.
InitLocks ==
    /\ \E len \in 1..MaxBackends : NewLoadBalancer(len)
    /\ NoRequests
    /\ probeFails = [b \in Idx |-> 0]
    /\ sel = [b \in Idx |-> 0]
    /\ recording = FALSE

\* getBackendForRequest, role == "Admin": lb.mutex.RLock().
AdminRLock(r) ==
    /\ pc[r] = "route"
    /\ role[r] = "Admin"
    /\ lk[r] = "none"
    /\ r \notin lbReaders
    /\ lbReaders' = lbReaders \cup {r}
    /\ UNCHANGED <<poolVars, reqVars, hcIdx, statsVars, histVars, hcPc, hcOk, lk>>
    /\ UNCHANGED recording
    /\ UNCHANGED proxied

\* getBackendForRequest, role == "Admin": adminBackend := lb.backends[0], of
\* a slice nothing writes, and lb.mutex.RUnlock().
AdminRUnlock(r) ==
    /\ pc[r] = "route"
    /\ role[r] = "Admin"
    /\ r \in lbReaders
    /\ lbReaders' = lbReaders \ {r}
    /\ lk' = [lk EXCEPT ![r] = "released"]
    /\ UNCHANGED <<poolVars, reqVars, hcIdx, statsVars, histVars, hcPc, hcOk>>
    /\ UNCHANGED recording
    /\ UNCHANGED proxied

\* getBackendForRequest, other roles: lb.mutex.RLock(), after the atomic
\* increment of the cursor and before the loop.
BackendsRLock(r) ==
    /\ pc[r] = "scan"
    /\ scanI[r] = 0
    /\ lk[r] = "none"
    /\ r \notin lbReaders
    /\ lbReaders' = lbReaders \cup {r}
    /\ UNCHANGED <<poolVars, reqVars, hcIdx, statsVars, histVars, hcPc, hcOk, lk>>
    /\ UNCHANGED recording
    /\ UNCHANGED proxied

\* getBackendForRequest, other roles: backends := lb.backends, of a slice
\* nothing writes, and lb.mutex.RUnlock().
BackendsRUnlock(r) ==
    /\ pc[r] = "scan"
    /\ r \in lbReaders
    /\ lbReaders' = lbReaders \ {r}
    /\ lk' = [lk EXCEPT ![r] = "released"]
    /\ UNCHANGED <<poolVars, reqVars, hcIdx, statsVars, histVars, hcPc, hcOk>>
    /\ UNCHANGED recording
    /\ UNCHANGED proxied

\* getBackendForRequest: backend.mutex.RLock() of the loop's iteration, the
\* first after lb.mutex.RUnlock(), the others after the RUnlock of the
\* iteration before.
ScanRLock(r) ==
    /\ pc[r] = "scan"
    /\ lk[r] = "released" \/ (lk[r] = "none" /\ scanI[r] > 0)
    /\ RLock(r, MutexOf(r))
    /\ UNCHANGED <<poolVars, reqVars, hcIdx, statsVars, histVars, hcPc, hcOk, lbReaders>>
    /\ UNCHANGED recording
    /\ UNCHANGED proxied

\* HealthCheck: the probe, made with no mutex held, and backend.mutex.Lock()
\* of the branch its result selects.
HcLock(ok) ==
    /\ hcPc = "probe"
    /\ ~ok => failCount[hcIdx] < MaxFail
    /\ hcOk' = ok
    /\ hcPc' = IF ReadersOf(hcIdx) = {} THEN "locked" ELSE "lock"
    /\ UNCHANGED <<poolVars, reqVars, hcIdx, statsVars, histVars, lk, lbReaders>>
    /\ UNCHANGED recording
    /\ UNCHANGED proxied

\* The last reader before the writer has left: Lock returns.
HcAcquire ==
    /\ hcPc = "lock"
    /\ ReadersOf(hcIdx) = {}
    /\ hcPc' = "locked"
    /\ UNCHANGED <<poolVars, reqVars, hcIdx, statsVars, histVars, hcOk, lk, lbReaders>>
    /\ UNCHANGED recording
    /\ UNCHANGED proxied

\* GetStats: lb.mutex.RLock() at the call, and backend.mutex.RLock() of the
\* loop's iteration.
StatsRLock ==
    /\ statsPc = "read"
    /\ lk[StatsFlow] = "none"
    /\ RLock(StatsFlow, statsI)
    /\ lbReaders' = lbReaders \cup {StatsFlow}
    /\ UNCHANGED <<poolVars, reqVars, hcIdx, statsVars, histVars, hcPc, hcOk>>
    /\ UNCHANGED recording
    /\ UNCHANGED proxied

\* HealthCheck: the first assignment under the lock, backend.IsAlive; the
\* second, backend.failCount, and Unlock are HealthCheck's step.
HcWriteAlive ==
    /\ hcPc = "locked"
    /\ IsAlive' = [IsAlive EXCEPT ![hcIdx] = IsAliveAfter(@, hcOk)]
    /\ hcPc' = "wrote"
    /\ sawAllDown' = [r \in Reqs |->
                        sawAllDown[r] \/ (pc[r] = "scan" /\ AllDown(IsAlive'))]
    /\ UNCHANGED <<n, failCount, RequestCount, roundRobinCount>>
    /\ Observe
    /\ UNCHANGED <<reqVars, hcIdx, statsVars, probeFails, sel, win, handed>>
    /\ UNCHANGED <<hcOk, lk, lbReaders>>
    /\ UNCHANGED recording
    /\ UNCHANGED proxied

\* The forward is made with no lock held and its result touches none: one
\* response and the transport's failure stand for all.
ForwardResultsLocks == {StatusOK, NoResponse}

\* getBackendForRequest tests the role for "Admin" alone: a User's token
\* stands for a Client's, whose request takes the same locks at the same
\* places.
HeadersLocks == {h \in Headers : h.role # "Client"}

HandlerLocks(r) ==
    \/ \E h \in HeadersLocks : Arrived(r) /\ ServeHTTP(r, h)
    \/ AdminRLock(r)
    \/ AdminRUnlock(r)
    \/ lk[r] = "released" /\ RouteAdmin(r)
    \/ NextIndex(r)
    \/ BackendsRLock(r)
    \/ BackendsRUnlock(r)
    \/ ScanRLock(r)
    \/ lk[r] = "held" /\ Scan(r)
    \/ Count(r)
    \/ \E ans \in ForwardResultsLocks : Forward(r, ans)

RequestLocks == \E r \in 1..MaxRequests : HandlerLocks(r)

MonitorLocks ==
    \/ \E ok \in BOOLEAN : HcLock(ok)
    \/ HcAcquire
    \/ HcWriteAlive
    \/ hcPc = "wrote" /\ HealthCheck(hcOk)

StatsLocks ==
    \/ StatsCall
    \/ StatsRLock
    \/ lk[StatsFlow] = "held" /\ StatsRead
    \/ StatsTotal
    \/ StatsReturn

NextLocks == RequestLocks \/ MonitorLocks \/ StatsLocks

SpecLocks ==
    /\ InitLocks
    /\ [][NextLocks]_vars
    /\ \A r \in 1..MaxRequests : WF_vars(HandlerLocks(r))
    /\ WF_vars(MonitorLocks)
    /\ WF_vars(StatsLocks)

\* ----------------------------------------------------------------- SpecNew
\* Spec on the pool NewLoadBalancer builds from any list of addresses, the
\* empty list too.  On the empty pool HealthCheck's loop over the backends
\* has nothing to probe, and getBackendForRequest panics: the Admin branch at
\* lb.backends[0], between lb.mutex.RLock() and lb.mutex.RUnlock(), so that
\* the dead handler holds lb.mutex for reading for ever; the other at the
\* modulo by len(lb.backends), after the atomic increment of the cursor and
\* before any lock.  The server recovers the panic and closes the connection
\* with no status written.
InitNew ==
    /\ \E len \in 0..MaxBackends : NewLoadBalancer(len)
    /\ NoRequests
    /\ probeFails = [b \in Idx |-> 0]
    /\ sel = [b \in Idx |-> 0]
    /\ recording = TRUE

PanicEmptyPool(r) ==
    /\ pc[r] = "route"
    /\ n = 0
    /\ pc' = [pc EXCEPT ![r] = "done"]
    /\ IF role[r] = "Admin"
       THEN /\ lbReaders' = lbReaders \cup {r}
            /\ UNCHANGED <<roundRobinCount, handed, win, hist>>
       ELSE /\ roundRobinCount' = AddUint64(roundRobinCount, 1)
            /\ handed' = Append(handed, roundRobinCount')
            /\ win' = win + 1
            /\ hist' = hist
            /\ UNCHANGED lbReaders
    /\ UNCHANGED <<n, IsAlive, failCount, RequestCount, role, err, nextIndex, scanI,
                   backend, status, hcIdx, statsVars, probeFails, sawAllDown, sel>>
    /\ UNCHANGED <<hcPc, hcOk, lk>>
    /\ UNCHANGED recording
    /\ UNCHANGED proxied

EmptyPool ==
    /\ n = 0
    /\ \E r \in 1..MaxRequests :
         \/ \E h \in Headers : Arrived(r) /\ ServeHTTP(r, h)
         \/ PanicEmptyPool(r)

NextNew == (n > 0 /\ Next) \/ EmptyPool

SpecNew == InitNew /\ [][NextNew]_vars

\* ---------------------------------------------------------------- SpecConc
\* Requests served side by side, each by its own goroutine, on a pool whose
\* liveness the health check has set and does not change.
Conc == \E r \in Reqs : Handler(r)

SpecConc == InitRR /\ [][Conc]_vars

\* ---------------------------------------------------------------- SpecWrap
\* SpecStats on a new load balancer, and on one whose cursor has reached the
\* last value of a uint64: every request so far was refused (all backends
\* were down), and the backends are alive again.  No history of the pool
\* states during the call of GetStats is kept.
InitWrap ==
    /\ \E len \in 1..MaxBackends :
         /\ n = len
         /\ IsAlive = [b \in 0..(len - 1) |-> TRUE]
         /\ failCount = [b \in 0..(len - 1) |-> 0]
         /\ RequestCount = [b \in 0..(len - 1) |-> 0]
    /\ roundRobinCount \in {0, Uint64Modulus - 1}
    /\ NoRequests
    /\ probeFails = [b \in Idx |-> 0]
    /\ sel = [b \in Idx |-> 0]
    /\ recording = FALSE

SpecWrap == InitWrap /\ [][NextStats]_vars

\* ================================================================ claims
NonAdmin(r) == role[r] \in {"User", "Client"}

\* No request is between its cursor increment and its selection.
Settled == \A r \in Reqs : pc[r] # "scan"

\* Every request that has arrived is answered.
Quiescent == \A r \in Reqs : pc[r] \in {"new", "done"}

\* The first alive backend in the cyclic order start, start + 1, ..., or Nil.
CyclicDist(start, b) == (b - start + n) % n
FirstAliveFrom(start) ==
    IF \E b \in Idx : IsAlive[b]
    THEN CHOOSE b \in Idx :
            /\ IsAlive[b]
            /\ \A c \in Idx : IsAlive[c] => CyclicDist(start, b) <= CyclicDist(start, c)
    ELSE Nil

\* The number of consecutive down backends right before b in the cyclic order.
DownRun(b) ==
    Cardinality({d \in 1..(n - 1) :
                    \A j \in 1..d : ~IsAlive[(b - j + n) % n]})

\* ----------------------------------------------------------------------- C1
\* C1: an Admin request gets backend 0 if backend 0 is alive when the
\* dispatcher reads it and 503 (no backend) if it is down; no other backend is
\* ever selected for it, nor has its served counter incremented by it,
\* whatever the liveness of the others.
C1_AdminPinned ==
    /\ [](\A r \in Reqs : role[r] = "Admin" => backend[r] \in {0, Nil})
    /\ [][\A r \in Reqs :
            (role[r] = "Admin" /\ pc[r] = "route" /\ pc'[r] # "route") =>
                IF IsAlive[0]
                THEN backend'[r] = 0 /\ pc'[r] = "count" /\ status'[r] = 0
                ELSE backend'[r] = Nil /\ pc'[r] = "done" /\ status'[r] = 503]_vars
    /\ [][\A r \in Reqs :
            (role[r] = "Admin" /\ pc'[r] # pc[r]) =>
                \A b \in Idx \ {0} : RequestCount'[b] = RequestCount[b]]_vars

\* An Admin request was refused while backend 0 was down and another alive.
C1_Witness ==
    \E r \in Reqs :
        /\ role[r] = "Admin" /\ status[r] = 503 /\ backend[r] = Nil
        /\ ~IsAlive[0]
        /\ \E b \in Idx : IsAlive[b]

\* ----------------------------------------------------------------------- C2
\* C2: with liveness fixed, a User or Client request that raised the cursor
\* to c + 1 gets the first alive backend in the cyclic order (c+1) mod N,
\* (c+2) mod N, ..., after at most N reads of liveness, and gets 503 exactly
\* when no backend is alive; a down backend is never returned, and a single
\* alive backend gets every such request.
C2_FirstAliveInCyclicOrder ==
    \A r \in Reqs : NonAdmin(r) =>
        /\ pc[r] = "scan" =>
             /\ scanI[r] < n
             /\ nextIndex[r] = roundRobinCount % n
             /\ \A j \in 0..(scanI[r] - 1) : ~IsAlive[(nextIndex[r] + j) % n]
        /\ pc[r] \in {"count", "forward", "done"} =>
             /\ backend[r] = FirstAliveFrom(roundRobinCount % n)
             /\ backend[r] # Nil => IsAlive[backend[r]]
             /\ \A b \in Idx :
                  (IsAlive[b] /\ \A c \in Idx \ {b} : ~IsAlive[c]) => backend[r] = b
        /\ pc[r] \in {"count", "forward"} => backend[r] # Nil
        /\ pc[r] = "done" =>
             ((status[r] = 503 /\ r \notin proxied) <=> AllDown(IsAlive))
        /\ pc[r] = "done" => (backend[r] = Nil <=> AllDown(IsAlive))

\* A request passed over a down backend and got the next alive one.
C2_Witness ==
    \E r \in Reqs :
        /\ NonAdmin(r) /\ pc[r] = "count"
        /\ backend[r] # roundRobinCount % n
        /\ ~IsAlive[roundRobinCount % n]

\* ----------------------------------------------------------------------- C3
\* C3: a User or Client request is answered 503 for want of a backend only
\* if at some instant of its scan every backend of the pool was down.
C3_No503WhileSomeBackendAlive ==
    \A r \in Reqs :
        (NonAdmin(r) /\ status[r] = 503 /\ backend[r] = Nil) => sawAllDown[r]

\* ----------------------------------------------------------------------- C4
\* C4: with every backend down, every request that passed role extraction is
\* answered 503: none is forwarded and no served counter is incremented.
C4_AllDownAll503 ==
    AllDown(IsAlive) =>
        /\ \A b \in Idx : RequestCount[b] = 0
        /\ \A r \in Reqs :
             /\ backend[r] = Nil
             /\ pc[r] \notin {"count", "forward"}
             /\ (pc[r] = "done" /\ err[r] = "") => status[r] = 503
             /\ status[r] \in {0, 401, 503}

\* With every backend of a pool of two or more down, a request that passed
\* role extraction was answered 503.
C4_Witness ==
    /\ AllDown(IsAlive)
    /\ n > 1
    /\ \E r \in Reqs : pc[r] = "done" /\ role[r] \in Roles /\ status[r] = 503

\* ----------------------------------------------------------------------- C5
\* C5: with all N backends alive, User and Client requests with consecutive
\* cursor values are spread over all N backends, backend 0 included: the
\* per-backend counts differ by at most 1, N requests select N distinct
\* backends, and after N requests or more every backend has a share.
C5_RoundRobinAllAlive ==
    ((\A b \in Idx : IsAlive[b]) /\ Settled) =>
        /\ \A a, b \in Idx : sel[a] - sel[b] <= 1
        /\ win = n => \A b \in Idx : sel[b] = 1
        /\ win >= n => \A b \in Idx : sel[b] >= 1

\* One round, not the first, over a pool of three or more backends, all alive.
C5_Witness ==
    /\ \A b \in Idx : IsAlive[b]
    /\ Settled
    /\ n >= 3
    /\ win = n
    /\ roundRobinCount > win

\* ----------------------------------------------------------------------- C6
\* C6 as claimed: for a fixed non-empty set of alive backends, over N*k User
\* and Client requests with consecutive cursor values the alive backends are
\* selected equally often (counts differ by at most 1).
C6_EqualShareAmongAlive ==
    (Settled /\ win > 0 /\ win % n = 0) =>
        \A a, b \in Idx : (IsAlive[a] /\ IsAlive[b]) => sel[a] - sel[b] <= 1

\* C6 as amended: over N*k such requests no down backend is selected and an
\* alive backend b is selected k * (1 + d) times, d the number of consecutive
\* down backends right before b in the cyclic order.
C6_ShareByDownRun ==
    (Settled /\ win % n = 0) =>
        \A b \in Idx :
            sel[b] = IF IsAlive[b] THEN (win \div n) * (1 + DownRun(b)) ELSE 0

\* Two rounds over a pool of three with exactly one backend down.
C6_Witness ==
    /\ Settled
    /\ n = 3
    /\ Cardinality({b \in Idx : ~IsAlive[b]}) = 1
    /\ win = 2 * n

\* ----------------------------------------------------------------------- C7
\* C7: once all requests are answered, the round-robin cursor (GetStats'
\* totalRequests) equals the number of requests for which a backend was
\* selected.
C7_TotalIsRoutedCount ==
    Quiescent =>
        roundRobinCount = Cardinality({r \in Reqs : backend[r] # Nil})

\* ----------------------------------------------------------------------- C8
\* C8: a backend's failCount is the number of consecutive failed probes since
\* its last successful probe (or since construction), and a backend with no
\* failed probe since its last successful one is alive.
C8_FailCountIsConsecutiveFailures ==
    \A b \in Idx :
        /\ failCount[b] = probeFails[b]
        /\ probeFails[b] = 0 => IsAlive[b]

\* A backend has failed two probes in a row.
C8_Witness == \E b \in Idx : probeFails[b] = 2 /\ ~IsAlive[b]

\* ----------------------------------------------------------------------- C9
\* C9: a request ends in exactly one of four outcomes.  ServeHTTP answers
\* 401 if and only if role extraction failed, and then nothing is selected;
\* it answers 503 if and only if role extraction succeeded and no backend
\* was selected; otherwise the request was forwarded to the selected backend
\* and ends in the backend's response, relayed with the status the backend
\* wrote (200 on success), or, when the transport failed, in the 502 of the
\* proxy's ErrorHandler; the status is written once.
C9_FourOutcomes ==
    /\ [](\A r \in Reqs :
            /\ pc[r] # "done" => (status[r] = 0 /\ r \notin proxied)
            /\ pc[r] = "done" =>
                 /\ (status[r] = 401 /\ r \notin proxied) <=> err[r] # ""
                 /\ err[r] # "" => backend[r] = Nil
                 /\ (status[r] = 503 /\ r \notin proxied)
                        <=> (err[r] = "" /\ backend[r] = Nil)
                 /\ (r \in proxied \/ status[r] = 502) <=> backend[r] # Nil
                 /\ r \in proxied => status[r] \in {200, 301, 401, 502, 503}
                 /\ r \notin proxied => status[r] \in {401, 502, 503})
    /\ [][\A r \in Reqs :
            /\ (pc[r] = "new" /\ err'[r] # "") =>
                  /\ pc'[r] = "done"
                  /\ roundRobinCount' = roundRobinCount
                  /\ RequestCount' = RequestCount
            /\ (status[r] = 0 /\ (r \in proxied' \/ status'[r] = 502)) =>
                  (pc[r] = "forward" /\ backend[r] # Nil /\ backend'[r] = backend[r])
            /\ status[r] # 0 => (status'[r] = status[r] /\ pc'[r] = pc[r])]_vars

\* A forward failed at the transport although the selected backend is
\* reported alive.
C9_Witness ==
    \E r \in Reqs :
        /\ status[r] = 502 /\ r \notin proxied
        /\ backend[r] # Nil /\ IsAlive[backend[r]]

\* ---------------------------------------------------------------------- C10
\* C10: when GetStats returns, there was an instant since its call at which
\* the pool (every backend's liveness, failure counter and served counter,
\* and the cursor) was as the snapshot says.
C10_SnapshotOfOneInstant == statsPc = "done" => hist # {}

\* ---------------------------------------------------------------------- C11
\* The requests whose served-counter increment has been made.
Counted(b) == {r \in Reqs : backend[r] = b /\ pc[r] \in {"forward", "done"}}

RECURSIVE SumServed(_)
SumServed(k) == IF k = 0 THEN 0 ELSE RequestCount[k - 1] + SumServed(k - 1)

\* C11: a backend's served counter is the number of requests it was selected
\* for and whose increment is made: the increment is made once, after the
\* selection and before the forward starts, and stays whether the forward
\* ends in the backend's response or in 502; a request that ServeHTTP
\* answered 401 or 503 has no backend and counts nowhere; the served counters
\* add up to the number of requests with a backend selected and counted,
\* under every interleaving.
C11_ServedCountsSelections ==
    /\ \A b \in Idx : RequestCount[b] = Cardinality(Counted(b))
    /\ SumServed(n) =
         Cardinality({r \in Reqs : backend[r] # Nil /\ pc[r] \in {"forward", "done"}})
    /\ \A r \in Reqs :
         /\ backend[r] # Nil => pc[r] \in {"count", "forward", "done"}
         /\ (status[r] \in {401, 503} /\ r \notin proxied) => backend[r] = Nil
         /\ (r \in proxied \/ status[r] = 502) => r \in Counted(backend[r])

\* Two requests side by side got the same backend; the forward of one failed
\* and both are counted.
C11_Witness ==
    \E b \in Idx : \E r \in Reqs :
        /\ RequestCount[b] = 2
        /\ backend[r] = b
        /\ status[r] = 502 /\ r \notin proxied

\* ---------------------------------------------------------------------- C12
\* C12: the health check can always make its next probe, whatever failures
\* came before; a successful probe of a down backend makes it alive with
\* failCount 0, so that the dispatcher selects it again; and, the ticker
\* firing forever, a backend none of whose probes fails from some point on is
\* alive from some point on.
C12_NeverEvicted ==
    /\ [](ENABLED Monitor)
    /\ [][\A b \in Idx :
            (~IsAlive[b] /\ probeFails[b] > 0 /\ probeFails'[b] = 0) =>
                /\ IsAlive'[b]
                /\ failCount'[b] = 0
                /\ b = 0 => AdminBackend(IsAlive') = 0
                /\ FirstAliveFrom(b)' = b]_vars
    /\ \A b \in 0..(MaxBackends - 1) :
         (<>[][(b \in Idx) => (probeFails'[b] <= probeFails[b])]_vars)
             => <>[](b \in Idx => IsAlive[b])

\* Backend 0 was down, an Admin request was refused for it, and it is alive
\* again with failCount 0.
C12_Witness ==
    \E r \in Reqs :
        /\ role[r] = "Admin" /\ status[r] = 503 /\ backend[r] = Nil
        /\ IsAlive[0] /\ failCount[0] = 0

\* ---------------------------------------------------------------------- C13
\* A failed probe of b whose last update was a mark-down, and a successful
\* probe of b whose last update was a mark-alive (or none yet).
MarkDownAgain(b) == probeFails[b] >= 1 /\ probeFails'[b] = probeFails[b] + 1
MarkAliveAgain(b) ==
    hcIdx = b /\ hcIdx' # hcIdx /\ probeFails[b] = 0 /\ probeFails'[b] = 0

\* C13 as claimed: the mark-down update applied a second time in a row
\* leaves the backend's IsAlive and failCount as the first left them, and so
\* does the mark-alive update.
C13_MarksIdempotent ==
    [][\A b \in Idx :
         (MarkDownAgain(b) \/ MarkAliveAgain(b)) =>
             (IsAlive'[b] = IsAlive[b] /\ failCount'[b] = failCount[b])]_vars

\* C13 as amended: the mark-alive update applied a second time in a row
\* leaves the backend as the first left it (alive, failCount 0); the
\* mark-down update applied a second time leaves it down, as the first did,
\* with failCount one higher.
C13_MarkAliveIdempotentMarkDownCounts ==
    [][\A b \in Idx :
         /\ MarkAliveAgain(b) =>
              /\ IsAlive[b] /\ IsAlive'[b]
              /\ failCount[b] = 0 /\ failCount'[b] = 0
         /\ MarkDownAgain(b) =>
              /\ ~IsAlive[b] /\ ~IsAlive'[b]
              /\ failCount'[b] = failCount[b] + 1]_vars

\* The mark-down update was applied twice in a row to one backend of a pool
\* of two, and the mark-alive update twice in a row to the other.
C13_Witness ==
    /\ n > 1
    /\ \E b \in Idx : ~IsAlive[b] /\ failCount[b] > 1
    /\ \E b \in Idx : IsAlive[b] /\ failCount[b] = 0

\* ---------------------------------------------------------------------- C14
\* C14: the pool has one backend or more, exactly one backend of it has
\* IsAdmin set, and that backend is the one at index 0.
C14_OnePrivilegedBackend ==
    /\ n >= 1
    /\ Cardinality({b \in Idx : IsAdmin(b)}) = 1
    /\ \A b \in Idx : IsAdmin(b) <=> b = 0

\* ---------------------------------------------------------------------- C15
\* C15: every backend starts alive with failCount 0; a step that changes
\* some backend's IsAlive or failCount is a probe: it changes those of the
\* probed backend only and is no step of a request or of GetStats; a failed
\* probe leaves the probed backend down and a successful one leaves it
\* alive; no step of ServeHTTP (a forward that ends in 502 included), of
\* getBackendForRequest or of GetStats changes any IsAlive or failCount.
C15_LivenessDrivenByProbes ==
    /\ \A b \in Idx : IsAlive[b] /\ failCount[b] = 0
    /\ [][(IsAlive' # IsAlive \/ failCount' # failCount) =>
            /\ UNCHANGED <<n, RequestCount, roundRobinCount, reqVars, statsVars>>
            /\ hcIdx' = (hcIdx + 1) % n
            /\ \A b \in Idx \ {hcIdx} :
                 IsAlive'[b] = IsAlive[b] /\ failCount'[b] = failCount[b]]_vars
    /\ [][\A b \in Idx :
            /\ probeFails'[b] > probeFails[b] => ~IsAlive'[b]
            /\ (hcIdx = b /\ probeFails'[b] = 0
                  /\ (hcIdx' # hcIdx \/ probeFails[b] # 0)) => IsAlive'[b]]_vars
    /\ [][(pc' # pc \/ statsPc' # statsPc \/ snap' # snap) =>
            UNCHANGED <<IsAlive, failCount>>]_vars

\* GetStats has returned and a forward has ended in 502 on a backend that is
\* alive with failCount 0, while another backend is down after a failed probe.
C15_Witness ==
    /\ statsPc = "done"
    /\ \E r \in Reqs :
         /\ status[r] = 502 /\ r \notin proxied
         /\ IsAlive[backend[r]] /\ failCount[backend[r]] = 0
         /\ \E b \in Idx : ~IsAlive[b] /\ failCount[b] > 0

\* ---------------------------------------------------------------------- C17
\* The requests that have made their atomic increment of the cursor.
Incremented == {r \in Reqs : NonAdmin(r) /\ pc[r] \notin {"new", "route"}}

\* C17: the cursor values returned to the User and Client requests served
\* side by side are 1, 2, 3, ... in the order of their increments, no value
\* twice, and the cursor is the number of such requests that have made their
\* increment, whether they then found a backend or not.
C17_NoLostCursorUpdate ==
    /\ handed = [i \in 1..Len(handed) |-> i]
    /\ Len(handed) = Cardinality(Incremented)
    /\ roundRobinCount = Cardinality(Incremented)

\* Two requests side by side have taken the cursor to 2; one found no backend.
C17_Witness ==
    /\ handed = <<1, 2>>
    /\ \E r, q \in Incremented :
         /\ r # q
         /\ pc[r] = "scan" /\ status[q] = 503 /\ backend[q] = Nil

\* ---------------------------------------------------------------------- C18
\* The step is the cursor increment of a User or Client request.
Selects == \E r \in Reqs : pc[r] = "route" /\ role[r] # "Admin" /\ pc'[r] # "route"

\* C18 as claimed: the cursor never decreases, not even when it has reached
\* the last value of its width; the selection of a User or Client request
\* raises it by exactly 1 and every other step (Admin request, rejected
\* request, forward, probe, GetStats) leaves it unchanged.
C18_CursorNeverDecreases ==
    [][/\ roundRobinCount' >= roundRobinCount
       /\ roundRobinCount' = IF Selects THEN roundRobinCount + 1
                                        ELSE roundRobinCount]_vars

\* C18 as amended: the selection of a User or Client request raises the
\* cursor by exactly 1 modulo the width of the counter: the cursor grows
\* until it has reached the last value of its width, and the next such
\* selection takes it to 0; every other step leaves it unchanged.
C18_CursorWrapsAtWidth ==
    [][/\ Selects =>
            IF roundRobinCount = Uint64Modulus - 1
            THEN roundRobinCount' = 0
            ELSE roundRobinCount' = roundRobinCount + 1
       /\ ~Selects => roundRobinCount' = roundRobinCount]_vars

\* The cursor has wrapped: a request was given cursor value 0 and start
\* index 0, and GetStats reports totalRequests 0.
C18_Witness ==
    /\ roundRobinCount = 0
    /\ handed = <<0>>
    /\ statsPc = "done" /\ snapTotal = 0

\* ---------------------------------------------------------------------- C19
\* C19: a request selects at most once and forwards at most once: its
\* backend, once selected, is never replaced; a request that has its backend
\* does not go back to the selection; the forward ends the request, in the
\* backend's response or, when it fails, in 502, with no counter touched,
\* and the answer is final whatever else is alive; a backend's served
\* counter counts each request selected for it once.
C19_NoRetry ==
    /\ [](\A b \in Idx : RequestCount[b] = Cardinality(Counted(b)))
    /\ [][\A r \in Reqs :
            /\ backend[r] # Nil => backend'[r] = backend[r]
            /\ pc[r] \in {"count", "forward", "done"} =>
                  pc'[r] \in {"count", "forward", "done"}
            /\ (pc[r] = "forward" /\ pc'[r] # "forward") =>
                  /\ pc'[r] = "done"
                  /\ r \notin proxied' => status'[r] = 502
                  /\ r \in proxied' => status'[r] \in {200, 301, 401, 502, 503}
                  /\ RequestCount' = RequestCount
                  /\ roundRobinCount' = roundRobinCount
            /\ status[r] = 502 => (status'[r] = 502 /\ pc'[r] = "done")]_vars

\* A forward failed, the request ended in 502, and another backend, alive,
\* has served nothing.
C19_Witness ==
    \E r \in Reqs : \E b \in Idx :
        /\ status[r] = 502 /\ r \notin proxied
        /\ b # backend[r]
        /\ IsAlive[b] /\ RequestCount[b] = 0
        /\ RequestCount[backend[r]] = 1

\* --------------------------------------------------------------------- C16
\* The HealthCheck goroutine, beside the request handlers and GetStats.
MonitorFlow == MaxHandlers + 1

AllFlows == Flows \cup {MonitorFlow}

\* The accesses to backends' fields that flow f makes in its next step: the
\* backend, the field, whether it is a write, and what it is made under: the
\* backend's mutex, an atomic operation, or nothing.
\*   handler: adminBackend.IsAlive read after lb.mutex.RUnlock(), with no
\*            backend.mutex; backend.IsAlive read in the loop under
\*            backend.mutex.RLock(); atomic.AddUint64(&backend.RequestCount, 1)
\*   monitor: IsAlive and failCount written under backend.mutex.Lock()
\*   GetStats: IsAlive, failCount and RequestCount read by plain loads under
\*            backend.mutex.RLock()
AccessOf(f) ==
    IF f = MonitorFlow
    THEN IF hcPc = "locked"
         THEN {[b |-> hcIdx, field |-> "IsAlive", write |-> TRUE, by |-> "mutex"]}
         ELSE IF hcPc = "wrote"
         THEN {[b |-> hcIdx, field |-> "failCount", write |-> TRUE, by |-> "mutex"]}
         ELSE {}
    ELSE IF f = StatsFlow
    THEN IF statsPc = "read" /\ lk[StatsFlow] = "held"
         THEN {[b |-> statsI, field |-> fl, write |-> FALSE, by |-> "mutex"] :
                   fl \in {"IsAlive", "failCount", "RequestCount"}}
         ELSE {}
    ELSE IF pc[f] = "route" /\ role[f] = "Admin" /\ lk[f] = "released"
    THEN {[b |-> 0, field |-> "IsAlive", write |-> FALSE, by |-> "none"]}
    ELSE IF pc[f] = "scan" /\ lk[f] = "held"
    THEN {[b |-> MutexOf(f), field |-> "IsAlive", write |-> FALSE, by |-> "mutex"]}
    ELSE IF pc[f] = "count"
    THEN {[b |-> backend[f], field |-> "RequestCount", write |-> TRUE,
           by |-> "atomic"]}
    ELSE {}

\* Two accesses to one field are ordered when both are made under the
\* backend's mutex or both are atomic operations.
Synchronised(a, c) == a.by = c.by /\ a.by # "none"

DataRace ==
    \E f \in AllFlows, g \in AllFlows :
        /\ f # g
        /\ \E a \in AccessOf(f), c \in AccessOf(g) :
               /\ a.b = c.b
               /\ a.field = c.field
               /\ a.write \/ c.write
               /\ ~Synchronised(a, c)

\* C16: at no instant is one flow about to read or write a backend's field
\* with no synchronisation, or with another than the writer's, while another
\* flow is about to write the same field: no data race on IsAlive, failCount
\* or RequestCount.
C16_NoDataRace == ~DataRace

\* --------------------------------------------------------------------- C20
\* The flows of SpecLocks.
LockFlows == (1..MaxRequests) \cup {StatsFlow, MonitorFlow}

\* Flow f has called Lock or RLock and the call has not returned.
Blocked(f) ==
    IF f = MonitorFlow THEN hcPc = "lock" /\ ReadersOf(hcIdx) # {}
                       ELSE lk[f] = "wait"

\* The flows whose critical sections a blocked flow waits for.
BlockersOf(f) ==
    IF f = MonitorFlow THEN ReadersOf(hcIdx)
    ELSE IF WriterAt(MutexOf(f)) THEN {MonitorFlow}
    ELSE {}

CanStep(f) ==
    /\ ~Blocked(f)
    /\ IF f = MonitorFlow THEN ENABLED MonitorLocks
       ELSE IF f = StatsFlow THEN ENABLED StatsLocks
       ELSE ENABLED HandlerLocks(f)

\* A blocked flow waits for flows that can take a step, or that wait in turn
\* for flows that can: no flow waits for itself.
NoCircularWait ==
    \A f \in LockFlows :
        Blocked(f) =>
            /\ BlockersOf(f) # {}
            /\ \A g \in BlockersOf(f) :
                   \/ CanStep(g)
                   \/ /\ BlockersOf(g) # {}
                      /\ \A h \in BlockersOf(g) : CanStep(h)

\* A backend's mutex is held for the read or the write of that backend's
\* fields alone, and the pool's read lock for GetStats' loop and for a
\* request's copy of lb.backends alone, with no backend's mutex called: not
\* while a request is validated, counted or forwarded, and not during a probe.
ShortSections ==
    /\ \A r \in Reqs : lk[r] \in {"wait", "held"} => pc[r] = "scan"
    /\ lk[StatsFlow] # "none" => statsPc = "read"
    /\ \A r \in Reqs :
           r \in lbReaders =>
               /\ lk[r] = "none"
               /\ \/ pc[r] = "route" /\ role[r] = "Admin"
                  \/ pc[r] = "scan" /\ scanI[r] = 0
    /\ StatsFlow \in lbReaders => statsPc = "read"
    /\ hcPc \in {"locked", "wrote"} => ReadersOf(hcIdx) = {}
    /\ hcPc = "probe" => \A f \in Flows : lk[f] # "wait"

\* C20: no interleaving of a request handler, the HealthCheck loop and
\* GetStats reaches a deadlock: the locks are held for the short sections
\* alone, a blocked flow always waits for one that can step, and with every
\* goroutine scheduled again and again each flow that has called RLock or
\* Lock gets the lock: the handler and GetStats do not block the health
\* check for ever, nor the health check them.
C20_NoDeadlock ==
    /\ [](ShortSections /\ NoCircularWait)
    /\ \A f \in LockFlows \ {MonitorFlow} : (lk[f] = "wait") ~> (lk[f] = "held")
    /\ (hcPc = "lock") ~> (hcPc = "locked")

\* A reader blocked behind the writer, which waits for another reader to
\* leave.
C20_Witness ==
    \E f \in Flows, g \in Flows :
        /\ hcPc = "lock"
        /\ lk[f] = "wait"
        /\ lk[g] = "held"
        /\ MutexOf(f) = hcIdx
        /\ MutexOf(g) = hcIdx

\* --------------------------------------------------------------------- C21
\* C21: a request that ServeHTTP answers 401 (no token, a token that does not verify, or
\* a role that is none of User, Client and Admin) is answered in its first
\* step, on the result of ValidateJWT alone, and that step changes no pool
\* state: the cursor, every backend's served counter, liveness and failure
\* counter are after it what they were before it.
C21_RejectedRequestChangesNoPoolState ==
    [][\A r \in Reqs :
          (status'[r] = 401 /\ status[r] # 401 /\ r \notin proxied') =>
              /\ pc[r] = "new"
              /\ pc'[r] = "done"
              /\ err'[r] # ""
              /\ roundRobinCount' = roundRobinCount
              /\ RequestCount' = RequestCount
              /\ IsAlive' = IsAlive
              /\ failCount' = failCount]_vars

\* A request with an unrecognised role has been answered 401 on a pool that
\* the health check has changed: a backend is down.
C21_Witness ==
    \E r \in Reqs :
        /\ status[r] = 401 /\ r \notin proxied
        /\ pc[r] = "done"
        /\ err[r] = "invalid role claim"
        /\ \E b \in Idx : ~IsAlive[b] /\ failCount[b] > 0

\* --------------------------------------------------------------------- C22
\* HealthCheck holds the mutex of backend b: it is inside its critical
\* section on b.
InSection(b) == hcPc \in {"locked", "wrote"} /\ hcIdx = b

\* C22: outside a backend's critical section the backend is alive exactly
\* when its failure counter is 0, and down exactly when the counter is at
\* least 1: so it is for every flow that holds the backend's mutex for
\* reading; and IsAlive and failCount change inside the critical section
\* alone.
C22_AliveIffNoFailures ==
    /\ [](\A b \in Idx :
             ~InSection(b) =>
                 /\ IsAlive[b] <=> failCount[b] = 0
                 /\ ~IsAlive[b] <=> failCount[b] >= 1)
    /\ [][\A b \in Idx :
             (IsAlive'[b] # IsAlive[b] \/ failCount'[b] # failCount[b])
                 => InSection(b)]_vars

\* After a failed probe's critical section, with no writer on the backend:
\* it is down with two failures counted, and GetStats holds its mutex for
\* reading.
C22_Witness ==
    \E b \in Idx :
        /\ ~InSection(b)
        /\ ~IsAlive[b]
        /\ failCount[b] >= 2
        /\ StatsFlow \in ReadersOf(b)

====
